---- MODULE Spec2Model ----
(***************************************************************************)
(* Lazy TIFF decoding engine (github.com/echoflaresat/tiff).               *)
(*                                                                         *)
(* The model follows the Go sources: the header/IFD parser of              *)
(* impl/header.go working on the bytes of a file, the striped and tiled    *)
(* constructors and pixel accessors of impl/striped.go and impl/tiled.go,  *)
(* and the dispatcher Decode of reader.go.  A file is a sequence of bytes; *)
(* offsets are 0-based as in the code, sequences 1-based as in TLA+.       *)
(***************************************************************************)
EXTENDS Integers, Sequences, FiniteSets, TLC

VARIABLES
    src,      \* the bytes of the input
    rkind,    \* what the input implements: "ReaderAt", "ReadSeeker", "Reader"
    pos,      \* read position of the stream underlying a ReadSeeker
    pc,       \* position inside Decode / the caller
    striped,  \* outcome of the LoadStripedTiff attempt of Decode
    tiled,    \* outcome of the LoadTiledTiff attempt of Decode
    fallback, \* outcome of the golang.org/x/image/tiff fallback
    calls,    \* how many times each constructor / the fallback has been invoked
    img,      \* the image handle held by the caller
    ret,      \* what Decode returned to its caller
    cache,    \* tiled handle: the LRU cache, most recently used entry first
    last,     \* the last pixel query: its arguments, reads and outcome
    cursor,   \* the caller's scan position (raster scans)
    seen,     \* outcomes observed so far, per pixel (history of the caller)
    history,  \* tiles queried and tiles loaded so far (history of the caller)
    callers,  \* concurrent callers of At on one tiled handle: where each stands
    loads     \* how many times loadTile has run, per tile (concurrent callers)

vars == <<src, rkind, pos, pc, striped, tiled, fallback, calls, img, ret,
          cache, last, cursor, seen, history, callers, loads>>

----------------------------------------------------------------------------
(* Tag vocabulary: tifftag, compression, photometric, planarconfig.        *)

TagImageWidth == 256
TagImageLength == 257
TagBitsPerSample == 258
TagCompression == 259
TagPhotometricInterpretation == 262
TagStripOffsets == 273
TagSamplesPerPixel == 277
TagRowsPerStrip == 278
TagStripByteCounts == 279
TagPlanarConfiguration == 284
TagTileWidth == 322
TagTileLength == 323
TagTileOffsets == 324
TagTileByteCounts == 325

CompressionUnknown == -1
CompressionNone == 1
CompressionLZW == 5
CompressionDeflate == 8

PhotometricUnknown == -1
PhotometricBlackIsZero == 1
PhotometricRGB == 2
PhotometricPaletted == 3

PlanarConfigUnknown == -1
PlanarConfigContig == 1

----------------------------------------------------------------------------
(* Binary field codec: encoding/binary's LittleEndian / BigEndian readers. *)

Min(a, b) == IF a < b THEN a ELSE b

\* 2^32 / 4: where a uint32 count times 4 wraps around.  (The model keeps
\* every 32-bit value below 2^31.)
TwoTo30 == 1073741824

\* b[off], 0-based
ByteAt(b, off) == b[off + 1]

Uint16(bo, b, off) ==
    IF bo = "LE"
    THEN ByteAt(b, off) + 256 * ByteAt(b, off + 1)
    ELSE 256 * ByteAt(b, off) + ByteAt(b, off + 1)

Uint32(bo, b, off) ==
    IF bo = "LE"
    THEN ByteAt(b, off) + 256 * ByteAt(b, off + 1)
         + 65536 * ByteAt(b, off + 2) + 16777216 * ByteAt(b, off + 3)
    ELSE 16777216 * ByteAt(b, off) + 65536 * ByteAt(b, off + 1)
         + 256 * ByteAt(b, off + 2) + ByteAt(b, off + 3)

----------------------------------------------------------------------------
(* The random-access byte source.                                          *)
(*                                                                         *)
(* An io.ReaderAt fills the whole buffer or returns an error (io.EOF when  *)
(* the file ends first).  readerAtFromSeeker seeks the stream to off and   *)
(* hands back the result of one Read: the bytes that are left, without an  *)
(* error unless none is left.  The buffer is zero-filled by make().        *)

Available(off) == IF off >= Len(src) THEN 0 ELSE Len(src) - off

Filled(off, size, n) == [i \in 1..size |-> IF i <= n THEN src[off + i] ELSE 0]

\* The stream position a readerAtFromSeeker reads from: Seek(off, SeekStart).
SeekStart(p, off) == off

\* One Read of the stream at position at, into a buffer of size bytes, of
\* which n are there.
seekerRead(at, size, n) ==
    [buf |-> Filled(at, size, n),
     err |-> IF n = 0 /\ size > 0 THEN "EOF" ELSE "nil",
     pos |-> at + n]

seekerReadAt(at, size) == seekerRead(at, size, Min(size, Available(at)))

\* ReadAt of an io.ReaderAt, n of the size bytes being there.
fileRead(p, off, size, n) ==
    [buf |-> Filled(off, size, n),
     err |-> IF n < size THEN "EOF" ELSE "nil",
     pos |-> p]

ReadAt(p, off, size) ==
    IF rkind = "ReadSeeker"
    THEN seekerReadAt(SeekStart(p, off), size)
    ELSE fileRead(p, off, size, Min(size, Available(off)))

Rd(off, size) == [off |-> off, size |-> size]

----------------------------------------------------------------------------
(* Header/IFD parser: impl/header.go.                                      *)

\* TiffHeader{}: the zero value returned next to an error.
ZeroHeader ==
    [ByteOrder |-> "nil", Width |-> 0, Height |-> 0,
     SamplesPerPixel |-> 0, BitsPerSample |-> <<>>,
     Photometric |-> 0, Compression |-> 0, PlanarConfig |-> 0,
     RowsPerStrip |-> 0, StripOffsets |-> <<>>, StripByteCounts |-> <<>>,
     TileWidth |-> 0, TileHeight |-> 0, TileOffsets |-> <<>>, TileByteCounts |-> <<>>]

\* The record the entry loop starts from.
\* A record that starts from the zero value of every field.
zeroedHeader(bo) == [ZeroHeader EXCEPT !.ByteOrder = bo]

InitialHeader(bo) ==
    [ZeroHeader EXCEPT !.ByteOrder = bo,
                       !.SamplesPerPixel = -1,
                       !.Photometric = PhotometricUnknown,
                       !.Compression = CompressionUnknown,
                       !.PlanarConfig = PlanarConfigUnknown]

\* Outcomes of the parser: status is "ok", "error" (err says which) or
\* "panic" (a Go run-time panic: index out of range).  reads lists the
\* ReadAt calls issued, pos is where the stream is left.
ParseOK(hdr, reads, p) ==
    [status |-> "ok", err |-> "nil", hdr |-> hdr, reads |-> reads, pos |-> p]

ParseFail(e, reads, p) ==
    [status |-> "error", err |-> e, hdr |-> ZeroHeader, reads |-> reads, pos |-> p]

ParsePanic(reads, p) ==
    [status |-> "panic", err |-> "index out of range", hdr |-> ZeroHeader,
     reads |-> reads, pos |-> p]

\* The byte length asked for an out-of-line array: count*width in uint32.
ArrayBytes(count, width) == IF width = 4 THEN (count % TwoTo30) * 4 ELSE count * 2

\* out[i] = bo.Uint16(buf[i*2:]) / bo.Uint32(buf[i*4:])
ArrayValues(bo, buf, count, width) ==
    [i \in 1..count |-> IF width = 2 THEN Uint16(bo, buf, (i - 1) * 2)
                                     ELSE Uint32(bo, buf, (i - 1) * 4)]

\* After buf, err := read(valOffset, size): the error, or the element loop,
\* which indexes count*width bytes of buf.
arrayOf(bo, count, width, size, rd, r) ==
    IF r.err # "nil"
    THEN [status |-> "error", err |-> r.err, val |-> <<>>, reads |-> <<rd>>, pos |-> r.pos]
    ELSE IF count > size \div width
    THEN [status |-> "panic", err |-> "index out of range", val |-> <<>>,
          reads |-> <<rd>>, pos |-> r.pos]
    ELSE [status |-> "ok", err |-> "nil", val |-> ArrayValues(bo, r.buf, count, width),
          reads |-> <<rd>>, pos |-> r.pos]

readOutOfLine(bo, count, valOffset, width, size, p) ==
    arrayOf(bo, count, width, size, Rd(valOffset, size), ReadAt(p, valOffset, size))

\* readShortArray / readLongArray: width is 2 or 4; inline is the value the
\* slot holds when count = 1.
readArray(bo, count, valOffset, width, inline, p) ==
    IF count = 1
    THEN [status |-> "ok", err |-> "nil", val |-> <<inline>>, reads |-> <<>>, pos |-> p]
    ELSE readOutOfLine(bo, count, valOffset, width, ArrayBytes(count, width), p)

readShortArray(bo, entry, count, valOffset, p) ==
    readArray(bo, count, valOffset, 2, Uint16(bo, entry, 8), p)

readLongArray(bo, entry, count, valOffset, p) ==
    readArray(bo, count, valOffset, 4, valOffset, p)

\* hdr.X = v for a scalar field.
setField(h, p) == ParseOK(h, <<>>, p)

\* hdr.X, err = readArray(); if err != nil { return TiffHeader{}, err }
setArray(hdr, field, a) ==
    IF a.status = "ok"
    THEN ParseOK([hdr EXCEPT ![field] = a.val], a.reads, a.pos)
    ELSE [status |-> a.status, err |-> a.err, hdr |-> ZeroHeader,
          reads |-> a.reads, pos |-> a.pos]

\* The switch on the tag.
dispatch(tag, count, valOffset, short, bo, entry, hdr, p) ==
    CASE tag = TagImageWidth   -> setField([hdr EXCEPT !.Width = valOffset], p)
      [] tag = TagImageLength  -> setField([hdr EXCEPT !.Height = valOffset], p)
      [] tag = TagBitsPerSample ->
            setArray(hdr, "BitsPerSample", readShortArray(bo, entry, count, valOffset, p))
      [] tag = TagCompression  -> setField([hdr EXCEPT !.Compression = short], p)
      [] tag = TagPhotometricInterpretation -> setField([hdr EXCEPT !.Photometric = short], p)
      [] tag = TagStripOffsets ->
            setArray(hdr, "StripOffsets", readLongArray(bo, entry, count, valOffset, p))
      [] tag = TagSamplesPerPixel -> setField([hdr EXCEPT !.SamplesPerPixel = short], p)
      [] tag = TagRowsPerStrip -> setField([hdr EXCEPT !.RowsPerStrip = valOffset], p)
      [] tag = TagStripByteCounts ->
            setArray(hdr, "StripByteCounts", readLongArray(bo, entry, count, valOffset, p))
      [] tag = TagPlanarConfiguration -> setField([hdr EXCEPT !.PlanarConfig = short], p)
      [] tag = TagTileWidth    -> setField([hdr EXCEPT !.TileWidth = valOffset], p)
      [] tag = TagTileLength   -> setField([hdr EXCEPT !.TileHeight = valOffset], p)
      [] tag = TagTileOffsets  ->
            setArray(hdr, "TileOffsets", readLongArray(bo, entry, count, valOffset, p))
      [] tag = TagTileByteCounts ->
            setArray(hdr, "TileByteCounts", readLongArray(bo, entry, count, valOffset, p))
      [] OTHER -> setField(hdr, p)

\* The tag on which an entry is dispatched.
EntryTag(bo, entry) == Uint16(bo, entry, 0)

\* One iteration of the entry loop.
parseEntry(bo, entry, hdr, p) ==
    dispatch(EntryTag(bo, entry), Uint32(bo, entry, 4), Uint32(bo, entry, 8),
             Uint16(bo, entry, 8), bo, entry, hdr, p)

\* for i := 0; i < numEntries; i++ { ... }; return hdr, nil
RECURSIVE parseEntries(_, _, _, _, _, _, _)
entryDone(bo, entriesRaw, i, numEntries, reads, e) ==
    IF e.status # "ok"
    THEN [status |-> e.status, err |-> e.err, hdr |-> ZeroHeader,
          reads |-> reads \o e.reads, pos |-> e.pos]
    ELSE parseEntries(bo, entriesRaw, i + 1, numEntries, e.hdr, reads \o e.reads, e.pos)

parseEntries(bo, entriesRaw, i, numEntries, hdr, reads, p) ==
    IF i >= numEntries
    THEN ParseOK(hdr, reads, p)
    ELSE entryDone(bo, entriesRaw, i, numEntries, reads,
                   parseEntry(bo, SubSeq(entriesRaw, i * 12 + 1, (i + 1) * 12), hdr, p))

\* The byte order the first two bytes select: "II", "MM", anything else.
ByteOrderOf(header) ==
    IF ByteAt(header, 0) = 73 /\ ByteAt(header, 1) = 73 THEN "LE"
    ELSE IF ByteAt(header, 0) = 77 /\ ByteAt(header, 1) = 77 THEN "BE"
    ELSE "nil"

\* A version check that lets later versions through.
VersionAtLeast(bo, header) == Uint16(bo, header, 2) >= 42

\* if bo.Uint16(header[2:4]) != 42
VersionOK(bo, header) == Uint16(bo, header, 2) = 42

\* entriesRaw, err := read(ifdOffset+2, numEntries*12), and the entry loop.
parseTable(bo, numEntries, reads, r2) ==
    IF r2.err # "nil" THEN ParseFail(r2.err, reads, r2.pos)
    ELSE parseEntries(bo, r2.buf, 0, numEntries, InitialHeader(bo), reads, r2.pos)

readTable(bo, ifdOffset, numEntries, reads, p) ==
    parseTable(bo, numEntries, Append(reads, Rd(ifdOffset + 2, numEntries * 12)),
               ReadAt(p, ifdOffset + 2, numEntries * 12))

\* entryCountRaw, err := read(ifdOffset, 2)
parseCount(bo, ifdOffset, reads, r1) ==
    IF r1.err # "nil" THEN ParseFail(r1.err, reads, r1.pos)
    ELSE readTable(bo, ifdOffset, Uint16(bo, r1.buf, 0), reads, r1.pos)

readCount(bo, ifdOffset, reads, p) ==
    parseCount(bo, ifdOffset, Append(reads, Rd(ifdOffset, 2)), ReadAt(p, ifdOffset, 2))

\* The byte-order switch and the version check on the 8 header bytes.
parseMagic(bo, header, reads, p) ==
    IF bo = "nil" THEN ParseFail("ErrInvalidTiffHeader", reads, p)
    ELSE IF ~VersionOK(bo, header) THEN ParseFail("ErrInvalidTiffHeader", reads, p)
    ELSE readCount(bo, Uint32(bo, header, 4), reads, p)

\* header, err := read(0, 8)
parseHeaderBytes(reads, r0) ==
    IF r0.err # "nil" THEN ParseFail(r0.err, reads, r0.pos)
    ELSE parseMagic(ByteOrderOf(r0.buf), r0.buf, reads, r0.pos)

parseTiffHeader(p) == parseHeaderBytes(<<Rd(0, 8)>>, ReadAt(p, 0, 8))

----------------------------------------------------------------------------
(* Constructors: impl/striped.go, impl/tiled.go.                           *)
(*                                                                         *)
(* The error values are fmt.Errorf texts; the model names each by its      *)
(* format string.  A constructor ends with a handle, an error or a panic.  *)

Reject(e, h) ==
    [status |-> "error", err |-> e, header |-> ZeroHeader, parsed |-> h,
     reads |-> h.reads, pos |-> h.pos]

Panicked(h) ==
    [status |-> "panic", err |-> "index out of range", header |-> ZeroHeader,
     parsed |-> h, reads |-> h.reads, pos |-> h.pos]

Handle(h) ==
    [status |-> "handle", err |-> "nil", header |-> h.hdr, parsed |-> h,
     reads |-> h.reads, pos |-> h.pos]

\* header.BitsPerSample[0] != 8: indexing an empty slice panics.
BitsPerSample0(header) ==
    IF Len(header.BitsPerSample) = 0 THEN "panic"
    ELSE IF header.BitsPerSample[1] # 8 THEN "bad" ELSE "ok"

\* switch header.Photometric { case BlackIsZero: ... case RGB: ... default: ... }
\* "ok", "panic" or the error text.
sampleFormat(header) ==
    CASE header.Photometric = PhotometricBlackIsZero ->
            IF header.SamplesPerPixel # 1 THEN "unsupported grayscale format"
            ELSE IF BitsPerSample0(header) = "panic" THEN "panic"
            ELSE IF BitsPerSample0(header) = "bad" THEN "unsupported grayscale format"
            ELSE "ok"
      [] header.Photometric = PhotometricRGB ->
            IF header.SamplesPerPixel # 3 THEN "unsupported RGB format"
            ELSE IF BitsPerSample0(header) = "panic" THEN "panic"
            ELSE IF BitsPerSample0(header) = "bad" THEN "unsupported RGB format"
            ELSE "ok"
      [] OTHER -> "unsupported photometric"

\* len(offsets) == 0 || len(offsets) != len(counts)
badLayout(offsets, counts) == Len(offsets) = 0 \/ Len(offsets) # Len(counts)

stripedCompressionOK(header) == header.Compression = CompressionNone

\* A compression check that lets every known scheme through.
knownCompression(header) == header.Compression >= CompressionNone

tiledCompressionOK(header) ==
    header.Compression = CompressionNone \/ header.Compression = CompressionDeflate

photometricOK(header) ==
    header.Photometric = PhotometricRGB \/ header.Photometric = PhotometricBlackIsZero

\* What follows the parse in both constructors.
validate(h, compressionOK, photoErr, offsets, counts, layoutErr) ==
    IF h.status = "error" THEN Reject(h.err, h)
    ELSE IF h.status = "panic" THEN Panicked(h)
    ELSE IF ~compressionOK THEN Reject("unsupported compression", h)
    ELSE IF ~photometricOK(h.hdr) THEN Reject(photoErr, h)
    ELSE IF sampleFormat(h.hdr) = "panic" THEN Panicked(h)
    ELSE IF sampleFormat(h.hdr) # "ok" THEN Reject(sampleFormat(h.hdr), h)
    ELSE IF badLayout(offsets, counts) THEN Reject(layoutErr, h)
    ELSE Handle(h)

\* LoadStripedTiff after its parseTiffHeader call.
stripedOf(h) ==
    validate(h, stripedCompressionOK(h.hdr),
             "expected RGB or grayscale photometric interpretation",
             h.hdr.StripOffsets, h.hdr.StripByteCounts,
             "invalid strip offset/length")

LoadStripedTiff(p) == stripedOf(parseTiffHeader(p))

\* LoadTiledTiff after its parseTiffHeader call.
tiledOf(h) ==
    validate(h, tiledCompressionOK(h.hdr),
             "unsupported photometric interpretation",
             h.hdr.TileOffsets, h.hdr.TileByteCounts,
             "invalid tile offset/length")

LoadTiledTiff(p) == tiledOf(parseTiffHeader(p))

----------------------------------------------------------------------------
(* Pixel access of a striped handle: stripedTiff.At of impl/striped.go.    *)
(*                                                                         *)
(* A query ends with a color <<R, G, B, A>> or with a panic; reads lists   *)
(* the ReadAt calls it issued.                                             *)

Color(r, g, b) == <<r, g, b, 255>>

QueryPanic(why, reads, p) ==
    [status |-> "panic", err |-> why, color |-> <<>>, reads |-> reads, pos |-> p]

QueryColor(c, reads, p) ==
    [status |-> "color", err |-> "nil", color |-> c, reads |-> reads, pos |-> p]

\* The number of bytes At reads: var buf [3]byte for RGB, var b [1]byte for
\* BlackIsZero.
SampleBytes(h) == IF h.Photometric = PhotometricRGB THEN 3 ELSE 1

\* The switch on h.Photometric applied to the bytes of a pixel.
ColorOf(h, b, off) ==
    IF h.Photometric = PhotometricRGB
    THEN Color(ByteAt(b, off), ByteAt(b, off + 1), ByteAt(b, off + 2))
    ELSE Color(ByteAt(b, off), ByteAt(b, off), ByteAt(b, off))

\* idx := h.StripOffsets[strip] + (localY*h.Width+x)*bytesPerPixel
StripIdx(h, strip, localY, x) ==
    h.StripOffsets[strip + 1] + (localY * h.Width + x) * h.SamplesPerPixel

\* After _, err := t.reader.ReadAt(buf[:], int64(idx))
stripedColor(h, rd, r) ==
    IF r.err # "nil" THEN QueryPanic("could not read pixel", <<rd>>, r.pos)
    ELSE QueryColor(ColorOf(h, r.buf, 0), <<rd>>, r.pos)

stripedRead(h, p, idx) ==
    stripedColor(h, Rd(idx, SampleBytes(h)), ReadAt(p, idx, SampleBytes(h)))

stripedAt(h, p, x, y) ==
    IF h.RowsPerStrip = 0 THEN QueryPanic("integer divide by zero", <<>>, p)
    ELSE IF y \div h.RowsPerStrip >= Len(h.StripOffsets)
    THEN QueryPanic("index out of range", <<>>, p)
    ELSE stripedRead(h, p, StripIdx(h, y \div h.RowsPerStrip, y % h.RowsPerStrip, x))

----------------------------------------------------------------------------
(* Pixel access of a tiled handle: tiledTiff.At and loadTile of            *)
(* impl/tiled.go, over the LRU cache of github.com/hashicorp/golang-lru    *)
(* and compress/zlib.                                                      *)

\* lru.New(200)
CacheSize == 200

\* The cache is a sequence of [key, val], most recently used first.
CacheIndex(c, k) ==
    IF \E i \in 1..Len(c) : c[i].key = k
    THEN CHOOSE i \in 1..Len(c) : c[i].key = k
    ELSE 0

Without(c, i) == SubSeq(c, 1, i - 1) \o SubSeq(c, i + 1, Len(c))

\* A refresh that keeps the value of the entry it displaces.
StaleFront(c, i) == <<[key |-> c[i].key, val |-> c[1].val]>> \o Without(c, i)

\* The entry at i becomes the most recently used one.
MoveToFront(c, i) == <<c[i]>> \o Without(c, i)

\* A lookup that leaves the order of the entries alone.
CachePeek(c, k) == c

\* cache.Get(k): a hit refreshes the entry.
CacheGet(c, k) == IF CacheIndex(c, k) = 0 THEN c ELSE MoveToFront(c, CacheIndex(c, k))

\* Drop the least recently used entries beyond the capacity.
Evict(c) == IF Len(c) > CacheSize THEN SubSeq(c, 1, CacheSize) ELSE c

\* cache.Add(k, v)
CacheAdd(c, k, v) ==
    IF CacheIndex(c, k) = 0
    THEN Evict(<<[key |-> k, val |-> v]>> \o c)
    ELSE <<[key |-> k, val |-> v]>> \o Without(c, CacheIndex(c, k))

\* A zlib stream: a two-byte header, the data, a checksum of the data.
ZlibHeader == <<120, 156>>

RECURSIVE ByteSum(_)
ByteSum(b) == IF b = <<>> THEN 0 ELSE (Head(b) + ByteSum(Tail(b))) % 256

\* zlib.NewReader: the header is checked.
zlibHeaderOK(buf) == Len(buf) >= 2 /\ SubSeq(buf, 1, 2) = ZlibHeader

ZlibPayload(buf) == SubSeq(buf, 3, Len(buf) - 1)

\* io.ReadAll(r): the data, if the stream is whole and its checksum right.
zlibBodyOK(buf) == Len(buf) >= 3 /\ buf[Len(buf)] = ByteSum(ZlibPayload(buf))

\* Outcome of loadTile: the tile bytes or a panic.
TilePanic(why, reads, p) ==
    [status |-> "panic", err |-> why, tile |-> <<>>, reads |-> reads, pos |-> p,
     inflated |-> FALSE]

TileOK(t, reads, p, z) ==
    [status |-> "ok", err |-> "nil", tile |-> t, reads |-> reads, pos |-> p,
     inflated |-> z]

\* if h.Compression == compression.Deflate { ... } return buf
inflate(h, buf, reads, p) ==
    IF h.Compression # CompressionDeflate THEN TileOK(buf, reads, p, FALSE)
    ELSE IF ~zlibHeaderOK(buf) THEN TilePanic("zlib decompression error", reads, p)
    ELSE IF ~zlibBodyOK(buf) THEN TilePanic("zlib read error", reads, p)
    ELSE TileOK(ZlibPayload(buf), reads, p, TRUE)

\* After _, err := t.reader.ReadAt(buf, int64(offset))
tileOf(h, rd, r) ==
    IF r.err # "nil" THEN TilePanic("failed to read tile", <<rd>>, r.pos)
    ELSE inflate(h, r.buf, <<rd>>, r.pos)

tileRead(h, p, offset, byteCount) ==
    tileOf(h, Rd(offset, byteCount), ReadAt(p, offset, byteCount))

loadTile(h, p, index) ==
    IF index >= Len(h.TileOffsets) THEN TilePanic("index out of range", <<>>, p)
    ELSE tileRead(h, p, h.TileOffsets[index + 1], h.TileByteCounts[index + 1])

\* tilesAcross := int(math.Ceil(float64(h.Width) / float64(h.TileWidth)))
TilesAcross(h) == (h.Width + h.TileWidth - 1) \div h.TileWidth

\* tileIndex := tileY*tilesAcross + tileX
TileIndex(h, x, y) == (y \div h.TileHeight) * TilesAcross(h) + (x \div h.TileWidth)

\* pixOffset := localY*rowStride + localX*h.SamplesPerPixel
PixOffset(h, x, y) ==
    (y % h.TileHeight) * (h.TileWidth * h.SamplesPerPixel)
    + (x % h.TileWidth) * h.SamplesPerPixel

\* Outcome of a tiled query: as a striped one, with the cache it leaves.
\* loaded: the tile was found in the cache or loadTile returned it.
TiledPanic(why, reads, p, c, index, hit, z, ld) ==
    [status |-> "panic", err |-> why, color |-> <<>>, reads |-> reads, pos |-> p,
     cache |-> c, tile |-> index, hit |-> hit, inflated |-> z, loaded |-> ld]

TiledColor(col, reads, p, c, index, hit, z) ==
    [status |-> "color", err |-> "nil", color |-> col, reads |-> reads, pos |-> p,
     cache |-> c, tile |-> index, hit |-> hit, inflated |-> z, loaded |-> TRUE]

\* The switch on h.Photometric: tile[pixOffset], tile[pixOffset+1], ...
tiledPixel(h, tile, off, reads, p, c, index, hit, z) ==
    IF off + SampleBytes(h) > Len(tile)
    THEN TiledPanic("index out of range", reads, p, c, index, hit, z, TRUE)
    ELSE TiledColor(ColorOf(h, tile, off), reads, p, c, index, hit, z)

\* A miss that stores an entry for the tile although its load failed.
storeFailedTile(h, c, x, y, index, t) ==
    IF t.status = "panic"
    THEN TiledPanic(t.err, t.reads, t.pos, CacheAdd(c, index, t.tile), index,
                    FALSE, FALSE, FALSE)
    ELSE tiledPixel(h, t.tile, PixOffset(h, x, y), t.reads, t.pos,
                    CacheAdd(c, index, t.tile), index, FALSE, t.inflated)

\* tile = t.loadTile(tileIndex); t.cache.Add(tileIndex, tile)
tiledMiss(h, c, x, y, index, t) ==
    IF t.status = "panic"
    THEN TiledPanic(t.err, t.reads, t.pos, c, index, FALSE, FALSE, FALSE)
    ELSE tiledPixel(h, t.tile, PixOffset(h, x, y), t.reads, t.pos,
                    CacheAdd(c, index, t.tile), index, FALSE, t.inflated)

\* if val, ok := t.cache.Get(tileIndex); ok { tile = val.([]byte) } else { ... }
tiledLookup(h, c, p, x, y, index, i) ==
    IF i # 0
    THEN tiledPixel(h, c[i].val, PixOffset(h, x, y), <<>>, p,
                    CacheGet(c, index), index, TRUE, FALSE)
    ELSE tiledMiss(h, c, x, y, index, loadTile(h, p, index))

tiledIndexed(h, c, p, x, y, index) == tiledLookup(h, c, p, x, y, index, CacheIndex(c, index))

tiledAt(h, c, p, x, y) ==
    IF h.TileWidth = 0 \/ h.TileHeight = 0
    THEN TiledPanic("integer divide by zero", <<>>, p, c, -1, FALSE, FALSE, FALSE)
    ELSE tiledIndexed(h, c, p, x, y, TileIndex(h, x, y))

----------------------------------------------------------------------------
(* Input files.  A file is laid out as the parser reads it: the 8-byte     *)
(* header, the IFD (entry count, 12-byte entries, next-IFD offset), the    *)
(* out-of-line arrays, then the pixel data.  Multi-byte fields are written *)
(* in the byte order bo.                                                   *)

Bytes16(bo, v) ==
    IF bo = "LE" THEN <<v % 256, (v \div 256) % 256>>
    ELSE <<(v \div 256) % 256, v % 256>>

Bytes32(bo, v) ==
    IF bo = "LE"
    THEN <<v % 256, (v \div 256) % 256, (v \div 65536) % 256, (v \div 16777216) % 256>>
    ELSE <<(v \div 16777216) % 256, (v \div 65536) % 256, (v \div 256) % 256, v % 256>>

TypeShort == "SHORT"
TypeLong == "LONG"

\* The field type as the entry's bytes [2:4] carry it.
TypeCode(typ) == IF typ = TypeShort THEN 3 ELSE 4

\* An IFD entry to be written: rel says the values are offsets into the
\* pixel data (relative to its start).
Ent(tag, typ, vals, rel) == [tag |-> tag, typ |-> typ, vals |-> vals, rel |-> rel]

EntWidth(e) == IF e.typ = TypeShort THEN 2 ELSE 4

\* Bytes an entry needs in the out-of-line area.
EntArrayBytes(e) == IF Len(e.vals) = 1 THEN 0 ELSE Len(e.vals) * EntWidth(e)

RECURSIVE ArrayAreaBytes(_)
ArrayAreaBytes(ents) ==
    IF ents = <<>> THEN 0 ELSE EntArrayBytes(Head(ents)) + ArrayAreaBytes(Tail(ents))

EntValue(e, i, pixStart) == IF e.rel THEN e.vals[i] + pixStart ELSE e.vals[i]

\* The bytes of value i of an entry.
ValueBytes(bo, e, i, pixStart) ==
    IF e.typ = TypeShort THEN Bytes16(bo, EntValue(e, i, pixStart))
                         ELSE Bytes32(bo, EntValue(e, i, pixStart))

\* The values of an entry from the i-th on, one after the other.
EncodeValues(bo, e, i, pixStart) ==
    [j \in 1..((Len(e.vals) - i + 1) * EntWidth(e)) |->
        ValueBytes(bo, e, i + (j - 1) \div EntWidth(e), pixStart)[((j - 1) % EntWidth(e)) + 1]]

\* The 4-byte value slot: the value itself when count = 1, else the offset
\* of the array.
EncodeSlot(bo, e, arrOff, pixStart) ==
    IF Len(e.vals) = 1
    THEN IF e.typ = TypeShort
         THEN Bytes16(bo, EntValue(e, 1, pixStart)) \o <<0, 0>>
         ELSE Bytes32(bo, EntValue(e, 1, pixStart))
    ELSE Bytes32(bo, arrOff)

EncodeEntry(bo, e, arrOff, pixStart) ==
    Bytes16(bo, e.tag) \o Bytes16(bo, TypeCode(e.typ)) \o Bytes32(bo, Len(e.vals))
    \o EncodeSlot(bo, e, arrOff, pixStart)

\* The entry table and the array area, in entry order.
EncodeArray(bo, e, pixStart) ==
    IF Len(e.vals) = 1 THEN <<>> ELSE EncodeValues(bo, e, 1, pixStart)

RECURSIVE EncodeEntries(_, _, _, _)
encodeMore(bo, e, arrOff, pixStart, rest) ==
    [tbl |-> EncodeEntry(bo, e, arrOff, pixStart) \o rest.tbl,
     arr |-> EncodeArray(bo, e, pixStart) \o rest.arr]

EncodeEntries(bo, ents, arrOff, pixStart) ==
    IF ents = <<>> THEN [tbl |-> <<>>, arr |-> <<>>]
    ELSE encodeMore(bo, Head(ents), arrOff, pixStart,
                    EncodeEntries(bo, Tail(ents), arrOff + EntArrayBytes(Head(ents)), pixStart))

IfdOffset == 8

ArrayStart(ents) == IfdOffset + 2 + 12 * Len(ents) + 4

PixStart(ents) == ArrayStart(ents) + ArrayAreaBytes(ents)

\* magic: the two marker bytes; version: the number written at [2:4].
fileOf(magic, bo, version, n, enc, pix) ==
    magic \o Bytes16(bo, version) \o Bytes32(bo, IfdOffset)
    \o Bytes16(bo, n) \o enc.tbl \o <<0, 0, 0, 0>> \o enc.arr \o pix

EncodeFile(magic, bo, version, ents, pix) ==
    fileOf(magic, bo, version, Len(ents),
           EncodeEntries(bo, ents, ArrayStart(ents), PixStart(ents)), pix)

MagicII == <<73, 73>>
MagicMM == <<77, 77>>

MagicOf(bo) == IF bo = "LE" THEN MagicII ELSE MagicMM

\* The k-th byte of the pixel data (0-based): all bytes of a small file differ.
PixByte(k) == (k * 37 + 11) % 256

PixData(n) == [k \in 1..n |-> PixByte(k - 1)]

\* An optional single-valued entry: <<>> stands for "no such entry".
OptEnt(tag, typ, v) == IF v = <<>> THEN <<>> ELSE <<Ent(tag, typ, v, FALSE)>>

\* n block offsets, blockBytes apart, relative to the pixel data.
BlockOffsets(n, blockBytes) == [i \in 1..n |-> (i - 1) * blockBytes]

BlockCounts(n, blockBytes) == [i \in 1..n |-> blockBytes]

\* An optional array entry: n = 0 stands for "no such entry".
OptArr(tag, n, vals, rel) == IF n = 0 THEN <<>> ELSE <<Ent(tag, TypeLong, vals, rel)>>

\* The entries of an image file, in tag order.  f gives, per field, <<>> or
\* the value; bps is <<>> or <<the BitsPerSample values>>; nso, nsc, nto,
\* ntc are the lengths of the four block arrays (0: no entry).
Entries(f) ==
    OptEnt(TagImageWidth, TypeLong, f.w)
    \o OptEnt(TagImageLength, TypeLong, f.h)
    \o (IF f.bps = <<>> THEN <<>> ELSE <<Ent(TagBitsPerSample, TypeShort, f.bps[1], FALSE)>>)
    \o OptEnt(TagCompression, TypeShort, f.comp)
    \o OptEnt(TagPhotometricInterpretation, TypeShort, f.phot)
    \o OptArr(TagStripOffsets, f.nso, BlockOffsets(f.nso, f.blockBytes), TRUE)
    \o OptEnt(TagSamplesPerPixel, TypeShort, f.spp)
    \o OptEnt(TagRowsPerStrip, TypeLong, f.rps)
    \o OptArr(TagStripByteCounts, f.nsc, BlockCounts(f.nsc, f.blockBytes), FALSE)
    \o OptEnt(TagPlanarConfiguration, TypeShort, f.planar)
    \o OptEnt(TagTileWidth, TypeLong, f.tw)
    \o OptEnt(TagTileLength, TypeLong, f.th)
    \o OptArr(TagTileOffsets, f.nto, BlockOffsets(f.nto, f.blockBytes), TRUE)
    \o OptArr(TagTileByteCounts, f.ntc, BlockCounts(f.ntc, f.blockBytes), FALSE)

ImageFile(magic, bo, version, f) ==
    EncodeFile(magic, bo, version, Entries(f), f.pix)

----------------------------------------------------------------------------
(* The dispatcher: Decode of reader.go.                                    *)

NoParse == [status |-> "none", err |-> "nil", hdr |-> ZeroHeader, reads |-> <<>>, pos |-> 0]

NoAttempt ==
    [status |-> "none", err |-> "nil", header |-> ZeroHeader, parsed |-> NoParse,
     reads |-> <<>>, pos |-> 0]

NoImage == [kind |-> "none", header |-> ZeroHeader]

NoReturn == [status |-> "none", err |-> "nil"]

\* A pixel query as the caller sees it.  wasLoaded and others are taken
\* from the caller's history before the query: whether an earlier query had
\* loaded the tile, and how many distinct other tiles were queried since the
\* tile was last queried.
Query(x, y, r, index, hit, z, ld, oth) ==
    [x |-> x, y |-> y, status |-> r.status, err |-> r.err, color |-> r.color,
     reads |-> r.reads, tile |-> index, hit |-> hit, inflated |-> z,
     wasLoaded |-> ld, others |-> oth]

NoQuery ==
    [x |-> -1, y |-> -1, status |-> "none", err |-> "nil", color |-> <<>>,
     reads |-> <<>>, tile |-> -1, hit |-> FALSE, inflated |-> FALSE,
     wasLoaded |-> FALSE, others |-> 0]

\* The caller's history: the distinct tiles it queried, the latest first,
\* and the tiles a query of its has loaded.
NoHistory == [recent |-> <<>>, loaded |-> {}]

NoCalls == [striped |-> 0, tiled |-> 0, fallback |-> 0, parse |-> 0]

\* Goroutines that call At on one handle, and the calls each makes.
NumCallers == 2

MaxCalls == 2

\* A goroutine outside At, after n calls, the last of which had outcome
\* status and color.
Idle(n, status, color) ==
    [pc |-> "idle", x |-> 0, y |-> 0, index |-> -1, tile |-> <<>>,
     calls |-> n, status |-> status, color |-> color]

NoCallers == [g \in 1..NumCallers |-> Idle(0, "none", <<>>)]

\* No tile has been loaded.
NoLoads == [t \in {} |-> 0]

\* The state before Decode is called on an input.
Fresh(bytes, kind) ==
    /\ src = bytes
    /\ rkind = kind
    /\ pos = 0
    /\ pc = "call"
    /\ striped = NoAttempt
    /\ tiled = NoAttempt
    /\ fallback = "none"
    /\ calls = NoCalls
    /\ img = NoImage
    /\ ret = NoReturn
    /\ cache = <<>>
    /\ last = NoQuery
    /\ cursor = 0
    /\ seen = <<>>
    /\ history = NoHistory
    /\ callers = NoCallers
    /\ loads = NoLoads

queryVars == <<cache, last, cursor, seen, history, callers, loads>>

\* r.(io.ReaderAt) or r.(io.ReadSeeker): is there a random-access source?
hasReaderAt == rkind = "ReaderAt" \/ rkind = "ReadSeeker"

\* A dispatcher that tries the next decoder whatever the constructor returned.
alwaysNext(r, next) == next

\* A dispatcher that returns header and read errors to its caller.
stopOnParseError(r, next) ==
    IF r.status = "handle" \/ r.err \in {"ErrInvalidTiffHeader", "EOF"} THEN "done"
    ELSE IF r.status = "panic" THEN "panicked"
    ELSE next

\* Where Decode goes after a constructor returned r (next: the step that
\* follows an error).
afterAttempt(r, next) ==
    IF r.status = "handle" THEN "done"
    ELSE IF r.status = "panic" THEN "panicked"
    ELSE next

\* What Decode returns after a constructor returned r, if it returns.
returnOf(r) ==
    IF r.status = "handle" THEN [status |-> "image", err |-> "nil"]
    ELSE IF r.status = "panic" THEN [status |-> "panic", err |-> r.err]
    ELSE NoReturn

imageOf(r, kind) ==
    IF r.status = "handle" THEN [kind |-> kind, header |-> r.header] ELSE NoImage

\* Lines 67-75: pick the random-access source, if any.
DecodeEnter ==
    /\ pc = "call"
    /\ pc' = IF hasReaderAt THEN "striped" ELSE "fallback"
    /\ UNCHANGED <<src, rkind, pos, striped, tiled, fallback, calls, img, ret>>
    /\ UNCHANGED queryVars

\* Lines 76-78: if img, err := impl.LoadStripedTiff(readerAt); err == nil
DecodeStriped ==
    /\ pc = "striped"
    /\ striped' = LoadStripedTiff(pos)
    /\ pos' = striped'.pos
    /\ calls' = [calls EXCEPT !.striped = @ + 1, !.parse = @ + 1]
    /\ pc' = afterAttempt(striped', "tiled")
    /\ img' = imageOf(striped', "striped")
    /\ ret' = returnOf(striped')
    /\ UNCHANGED <<src, rkind, tiled, fallback>>
    /\ UNCHANGED queryVars

\* Lines 79-81: if img, err := impl.LoadTiledTiff(readerAt); err == nil
DecodeTiled ==
    /\ pc = "tiled"
    /\ tiled' = LoadTiledTiff(pos)
    /\ pos' = tiled'.pos
    /\ calls' = [calls EXCEPT !.tiled = @ + 1, !.parse = @ + 1]
    /\ pc' = afterAttempt(tiled', "fallback")
    /\ img' = imageOf(tiled', "tiled")
    /\ ret' = returnOf(tiled')
    /\ UNCHANGED <<src, rkind, striped, fallback>>
    /\ UNCHANGED queryVars

\* Line 85: return stdtiff.Decode(r).  The fallback decoder is external: it
\* returns an image or an error of its own.
DecodeFallback ==
    /\ pc = "fallback"
    /\ \E ok \in BOOLEAN :
          /\ fallback' = IF ok THEN "image" ELSE "error"
          /\ ret' = IF ok THEN [status |-> "image", err |-> "nil"]
                          ELSE [status |-> "error", err |-> "stdtiff error"]
          /\ img' = IF ok THEN [kind |-> "fallback", header |-> ZeroHeader] ELSE NoImage
    /\ calls' = [calls EXCEPT !.fallback = @ + 1]
    /\ pc' = "done"
    /\ UNCHANGED <<src, rkind, pos, striped, tiled>>
    /\ UNCHANGED queryVars

----------------------------------------------------------------------------
(* Inputs of Decode.                                                       *)

MaxBlocks == 2

ImageSide == 2

\* A 2x2 image description; the block arrays and sample format vary.
DecodeFields(comp, phot, spp, bps, nso, nsc, nto, ntc) ==
    [w |-> <<ImageSide>>, h |-> <<ImageSide>>, bps |-> bps, comp |-> comp, phot |-> phot,
     spp |-> spp, rps |-> <<1>>, planar |-> <<PlanarConfigContig>>,
     tw |-> <<ImageSide>>, th |-> <<ImageSide>>,
     nso |-> nso, nsc |-> nsc, nto |-> nto, ntc |-> ntc,
     blockBytes |-> ImageSide * 3,
     pix |-> PixData(MaxBlocks * ImageSide * 3)]

GrayStriped ==
    DecodeFields(<<CompressionNone>>, <<PhotometricBlackIsZero>>, <<1>>, <<<<8>>>>,
                 MaxBlocks, MaxBlocks, 0, 0)

Prefix(s, n) == SubSeq(s, 1, Min(n, Len(s)))

\* Files with a good or bad header, whole or cut short.
HeaderFiles ==
    { Prefix(ImageFile(magic, bo, version, GrayStriped), cut) :
        magic \in {MagicII, MagicMM, <<88, 88>>, <<73, 77>>},
        bo \in {"LE", "BE"},
        version \in {42, 43},
        cut \in {2, 8, 9, 30, 1000} }

\* Files with a good header whose sample format varies.
FormatFiles ==
    { ImageFile(MagicOf(bo), bo, 42,
                DecodeFields(comp, phot, spp, bps, l[1], l[1], l[2], l[2])) :
        bo \in {"LE", "BE"},
        comp \in {<<>>, <<CompressionNone>>, <<CompressionLZW>>, <<CompressionDeflate>>},
        phot \in {<<>>, <<PhotometricBlackIsZero>>, <<PhotometricRGB>>, <<PhotometricPaletted>>},
        spp \in {<<>>, <<1>>, <<3>>},
        bps \in {<<>>, <<<<>>>>, <<<<8>>>>, <<<<16>>>>, <<<<8, 8, 8>>>>},
        l \in {<<MaxBlocks, 0>>, <<0, MaxBlocks>>, <<0, 0>>} }

\* Files with a good header and sample format whose block arrays vary.
LayoutFiles ==
    { ImageFile(MagicOf(bo), bo, 42,
                DecodeFields(<<comp>>, <<sf[1]>>, <<sf[2]>>, <<sf[3]>>, nso, nsc, nto, ntc)) :
        bo \in {"LE", "BE"},
        comp \in {CompressionNone, CompressionDeflate},
        sf \in {<<PhotometricBlackIsZero, 1, <<8>>>>, <<PhotometricRGB, 3, <<8, 8, 8>>>>},
        nso \in 0..MaxBlocks, nsc \in 0..MaxBlocks,
        nto \in 0..MaxBlocks, ntc \in 0..MaxBlocks }

Init ==
    \/ \E b \in HeaderFiles, k \in {"ReaderAt", "ReadSeeker", "Reader"} : Fresh(b, k)
    \/ \E b \in FormatFiles \cup LayoutFiles, k \in {"ReaderAt", "ReadSeeker"} : Fresh(b, k)

Next ==
    \/ DecodeEnter
    \/ DecodeStriped
    \/ DecodeTiled
    \/ DecodeFallback

Spec == Init /\ [][Next]_vars

----------------------------------------------------------------------------
(* Pixel queries of a caller holding the image Decode returned.  A caller  *)
(* that recovers from a panicking query goes on querying.                  *)

InBoundsX == 0..(img.header.Width - 1)

InBoundsY == 0..(img.header.Height - 1)

\* t.At(x, y) on a striped handle.
StripedQuery(x, y) ==
    /\ pc = "done"
    /\ img.kind = "striped"
    /\ \E r \in {stripedAt(img.header, pos, x, y)} :
          /\ last' = Query(x, y, r, -1, FALSE, FALSE, FALSE, 0)
          /\ pos' = r.pos
    /\ UNCHANGED <<src, rkind, pc, striped, tiled, fallback, calls, img, ret, cache>>
    /\ UNCHANGED <<callers, loads>>

\* The number of distinct other tiles queried since tile t was last queried.
OthersSince(t) ==
    IF \E i \in 1..Len(history.recent) : history.recent[i] = t
    THEN (CHOOSE i \in 1..Len(history.recent) : history.recent[i] = t) - 1
    ELSE Len(history.recent)

\* What the caller remembers after a query that touched tile r.tile.
historyAfter(r) ==
    IF r.tile < 0 THEN history
    ELSE [recent |-> <<r.tile>> \o SelectSeq(history.recent, LAMBDA t : t # r.tile),
          loaded |-> IF r.loaded THEN history.loaded \cup {r.tile} ELSE history.loaded]

\* t.At(x, y) on a tiled handle.
TiledQuery(x, y) ==
    /\ pc = "done"
    /\ img.kind = "tiled"
    /\ \E r \in {tiledAt(img.header, cache, pos, x, y)} :
          /\ last' = Query(x, y, r, r.tile, r.hit, r.inflated,
                           r.tile \in history.loaded, OthersSince(r.tile))
          /\ pos' = r.pos
          /\ cache' = r.cache
          /\ history' = historyAfter(r)
    /\ UNCHANGED <<src, rkind, pc, striped, tiled, fallback, calls, img, ret>>
    /\ UNCHANGED <<callers, loads>>

\* Any in-bounds query.
StripedAt ==
    /\ \E x \in InBoundsX, y \in InBoundsY : StripedQuery(x, y)
    /\ UNCHANGED <<cursor, seen, history>>

TiledAt ==
    /\ \E x \in InBoundsX, y \in InBoundsY : TiledQuery(x, y)
    /\ UNCHANGED <<cursor, seen>>

----------------------------------------------------------------------------
(* Image files for the pixel queries.                                      *)

\* The n raw bytes of block k.
RawBlock(k, n) == [j \in 1..n |-> PixByte(k * n + j - 1)]

ZlibBlock(payload) == ZlibHeader \o payload \o <<ByteSum(payload)>>

Block(k, n, comp) ==
    IF comp = CompressionDeflate THEN ZlibBlock(RawBlock(k, n)) ELSE RawBlock(k, n)

StoredBytes(n, comp) == IF comp = CompressionDeflate THEN n + 3 ELSE n

\* Blocks k .. cnt-1, one after the other.
Blocks(k, cnt, n, comp) ==
    [j \in 1..((cnt - k) * StoredBytes(n, comp)) |->
        Block(k + (j - 1) \div StoredBytes(n, comp), n, comp)[((j - 1) % StoredBytes(n, comp)) + 1]]

SamplesOf(phot) == IF phot = PhotometricRGB THEN 3 ELSE 1

BitsOf(phot) == IF phot = PhotometricRGB THEN <<8, 8, 8>> ELSE <<8>>

CeilDiv(a, b) == (a + b - 1) \div b

\* A striped image: rps is <<>> (no RowsPerStrip entry) or <<rows>>; n is
\* the number of strips written, rows the rows each holds.
StripedFields(phot, w, h, rps, n, rows) ==
    [w |-> <<w>>, h |-> <<h>>, bps |-> <<BitsOf(phot)>>,
     comp |-> <<CompressionNone>>, phot |-> <<phot>>, spp |-> <<SamplesOf(phot)>>,
     rps |-> rps, planar |-> <<PlanarConfigContig>>, tw |-> <<>>, th |-> <<>>,
     nso |-> n, nsc |-> n, nto |-> 0, ntc |-> 0,
     blockBytes |-> rows * w * SamplesOf(phot),
     pix |-> Blocks(0, n, rows * w * SamplesOf(phot), CompressionNone)]

\* A tiled image: tw is <<>> (no TileWidth entry) or <<width>>; n is the
\* number of tiles written, each of cols x th pixels.
TiledFields(phot, comp, w, h, tw, cols, th, n) ==
    [w |-> <<w>>, h |-> <<h>>, bps |-> <<BitsOf(phot)>>,
     comp |-> <<comp>>, phot |-> <<phot>>, spp |-> <<SamplesOf(phot)>>,
     rps |-> <<>>, planar |-> <<PlanarConfigContig>>, tw |-> tw, th |-> <<th>>,
     nso |-> 0, nsc |-> 0, nto |-> n, ntc |-> n,
     blockBytes |-> StoredBytes(cols * th * SamplesOf(phot), comp),
     pix |-> Blocks(0, n, cols * th * SamplesOf(phot), comp)]

MaxW == 3

MaxH == 2

\* Well-formed striped files, and files without a RowsPerStrip entry.
StripedFiles ==
    { ImageFile(MagicOf(bo), bo, 42,
                StripedFields(phot, w, h, IF rows = 0 THEN <<>> ELSE <<rows>>,
                              IF rows = 0 THEN 1 ELSE CeilDiv(h, rows),
                              IF rows = 0 THEN h ELSE rows)) :
        bo \in {"LE", "BE"}, phot \in {PhotometricBlackIsZero, PhotometricRGB},
        w \in 1..MaxW, h \in 1..MaxH, rows \in 0..MaxH }

\* Well-formed tiled files, and files without a TileWidth entry.
TiledFiles ==
    { ImageFile(MagicOf(bo), bo, 42,
                TiledFields(phot, comp, w, h, IF cols = 0 THEN <<>> ELSE <<cols>>,
                            IF cols = 0 THEN w ELSE cols, th,
                            IF cols = 0 THEN CeilDiv(h, th)
                                        ELSE CeilDiv(w, cols) * CeilDiv(h, th))) :
        bo \in {"LE", "BE"}, phot \in {PhotometricBlackIsZero, PhotometricRGB},
        comp \in {CompressionNone, CompressionDeflate},
        w \in 2..MaxW, h \in 1..MaxH, cols \in {0, 2}, th \in 1..MaxH }

DropLast(b) == SubSeq(b, 1, Len(b) - 1)

BumpLast(b) == [b EXCEPT ![Len(b)] = (@ + 1) % 256]

\* The file b with the first byte of its last block, of n stored bytes,
\* changed: a zlib stream whose header is not one.
BumpHead(b, n) == [b EXCEPT ![Len(b) - n + 1] = (@ + 1) % 256]

\* Files the constructors accept although blocks are missing, cut short or
\* corrupt.
DamagedFiles ==
    { ImageFile(MagicII, "LE", 42, StripedFields(phot, 2, 2, <<1>>, 1, 1)) :
        phot \in {PhotometricBlackIsZero, PhotometricRGB} }
    \cup
    { DropLast(ImageFile(MagicII, "LE", 42, StripedFields(phot, 2, 2, <<1>>, 2, 1))) :
        phot \in {PhotometricBlackIsZero, PhotometricRGB} }
    \cup
    { ImageFile(MagicII, "LE", 42, TiledFields(phot, comp, 3, 2, <<2>>, 2, 1, 3)) :
        phot \in {PhotometricBlackIsZero, PhotometricRGB},
        comp \in {CompressionNone, CompressionDeflate} }
    \cup
    { DropLast(ImageFile(MagicII, "LE", 42, TiledFields(phot, comp, 3, 2, <<2>>, 2, 1, 4))) :
        phot \in {PhotometricBlackIsZero, PhotometricRGB},
        comp \in {CompressionNone, CompressionDeflate} }
    \cup
    { BumpLast(ImageFile(MagicII, "LE", 42, TiledFields(phot, CompressionDeflate, 3, 2, <<2>>, 2, 1, 4))) :
        phot \in {PhotometricBlackIsZero, PhotometricRGB} }
    \cup
    { BumpHead(ImageFile(MagicII, "LE", 42, TiledFields(phot, CompressionDeflate, 3, 2, <<2>>, 2, 1, 4)),
               StoredBytes(2 * SamplesOf(phot), CompressionDeflate)) :
        phot \in {PhotometricBlackIsZero, PhotometricRGB} }
    \cup
    { ImageFile(MagicII, "LE", 42, TiledFields(phot, comp, 3, 2, <<2>>, 1, 1, 4)) :
        phot \in {PhotometricBlackIsZero, PhotometricRGB},
        comp \in {CompressionNone, CompressionDeflate} }

InitAt ==
    \/ \E b \in StripedFiles \cup DamagedFiles, k \in {"ReaderAt", "ReadSeeker"} : Fresh(b, k)
    \/ \E b \in TiledFiles : Fresh(b, "ReaderAt")

NextAt ==
    \/ DecodeEnter
    \/ DecodeStriped
    \/ DecodeTiled
    \/ StripedAt
    \/ TiledAt

SpecAt == InitAt /\ [][NextAt]_vars

----------------------------------------------------------------------------
(* A caller that walks the image in raster order, then in reverse raster   *)
(* order, and may return to pixel (0, 0) at any time of the first walk.    *)

Pixels == img.header.Width * img.header.Height

\* The pixel the walk visits at step c.
PixelAt(c) == IF c < Pixels THEN c ELSE 2 * Pixels - 1 - c

Outcome(q) == [status |-> q.status, err |-> q.err, color |-> q.color]

\* Query pixel number i; remember the outcome of the first query of a pixel.
Visit(i) ==
    /\ \/ StripedQuery(i % img.header.Width, i \div img.header.Width) /\ UNCHANGED history
       \/ TiledQuery(i % img.header.Width, i \div img.header.Width)
    /\ seen' = IF i < Len(seen) THEN seen ELSE Append(seen, Outcome(last'))

ScanStep ==
    /\ pc = "done"
    /\ img.kind \in {"striped", "tiled"}
    /\ cursor < 2 * Pixels
    /\ Visit(PixelAt(cursor))
    /\ cursor' = cursor + 1

Requery0 ==
    /\ pc = "done"
    /\ img.kind \in {"striped", "tiled"}
    /\ cursor <= Pixels
    /\ Visit(0)
    /\ UNCHANGED cursor

\* One row of ScanTiles tiles of one pixel each: more tiles than the cache
\* holds.
ScanTiles == 201

ScanFile ==
    ImageFile(MagicII, "LE", 42,
              TiledFields(PhotometricBlackIsZero, CompressionDeflate, ScanTiles, 1,
                          <<1>>, 1, 1, ScanTiles))

InitScan ==
    \/ \E b \in StripedFiles \cup DamagedFiles, k \in {"ReaderAt", "ReadSeeker"} : Fresh(b, k)
    \/ \E b \in TiledFiles \cup {ScanFile} : Fresh(b, "ReaderAt")

NextScan ==
    \/ DecodeEnter
    \/ DecodeStriped
    \/ DecodeTiled
    \/ ScanStep
    \/ Requery0

SpecScan == InitScan /\ [][NextScan]_vars

----------------------------------------------------------------------------
(* Goroutines that call At on one tiled handle at the same time.  The      *)
(* handle has no lock of its own; cache.Get and cache.Add are each atomic  *)
(* (the LRU cache locks itself), the steps of At between them are not.     *)

Running == \A g \in 1..NumCallers : callers[g].pc # "panicked"

PanickedIn(c) == [c EXCEPT !.pc = "panicked", !.status = "panic"]

LoadsOf(t) == IF t \in DOMAIN loads THEN loads[t] ELSE 0

\* Lines 70-76: enter At(x, y) and compute the tile index.
AtCall(g, x, y) ==
    /\ pc = "done" /\ img.kind = "tiled" /\ Running
    /\ callers[g].pc = "idle" /\ callers[g].calls < MaxCalls
    /\ callers' =
          [callers EXCEPT ![g] =
              IF img.header.TileWidth = 0 \/ img.header.TileHeight = 0
              THEN PanickedIn(@)
              ELSE [@ EXCEPT !.pc = "get", !.x = x, !.y = y,
                             !.index = TileIndex(img.header, x, y)]]
    /\ UNCHANGED <<src, rkind, pos, pc, striped, tiled, fallback, calls, img, ret>>
    /\ UNCHANGED <<cache, last, cursor, seen, history, loads>>

\* Line 79: val, ok := t.cache.Get(tileIndex)
AtGet(g) ==
    /\ Running
    /\ callers[g].pc = "get"
    /\ \E i \in {CacheIndex(cache, callers[g].index)} :
          /\ callers' =
                [callers EXCEPT ![g] =
                    IF i # 0 THEN [@ EXCEPT !.pc = "pixel", !.tile = cache[i].val]
                    ELSE [@ EXCEPT !.pc = "load"]]
          /\ cache' = CacheGet(cache, callers[g].index)
    /\ UNCHANGED <<src, rkind, pos, pc, striped, tiled, fallback, calls, img, ret>>
    /\ UNCHANGED <<last, cursor, seen, history, loads>>

\* Line 82: tile = t.loadTile(tileIndex)
AtLoad(g) ==
    /\ Running
    /\ callers[g].pc = "load"
    /\ \E t \in {loadTile(img.header, pos, callers[g].index)} :
          /\ callers' =
                [callers EXCEPT ![g] =
                    IF t.status = "panic" THEN PanickedIn(@)
                    ELSE [@ EXCEPT !.pc = "add", !.tile = t.tile]]
          /\ pos' = t.pos
    /\ loads' = [t \in DOMAIN loads \cup {callers[g].index} |->
                    IF t = callers[g].index THEN LoadsOf(t) + 1 ELSE LoadsOf(t)]
    /\ UNCHANGED <<src, rkind, pc, striped, tiled, fallback, calls, img, ret>>
    /\ UNCHANGED <<cache, last, cursor, seen, history>>

\* Line 83: t.cache.Add(tileIndex, tile)
AtAdd(g) ==
    /\ Running
    /\ callers[g].pc = "add"
    /\ cache' = CacheAdd(cache, callers[g].index, callers[g].tile)
    /\ callers' = [callers EXCEPT ![g].pc = "pixel"]
    /\ UNCHANGED <<src, rkind, pos, pc, striped, tiled, fallback, calls, img, ret>>
    /\ UNCHANGED <<last, cursor, seen, history, loads>>

\* Lines 86-110: the pixel of the tile, returned to the caller.
AtReturn(g) ==
    /\ Running
    /\ callers[g].pc = "pixel"
    /\ \E r \in {tiledPixel(img.header, callers[g].tile,
                            PixOffset(img.header, callers[g].x, callers[g].y),
                            <<>>, pos, cache, callers[g].index, FALSE, FALSE)} :
          callers' =
              [callers EXCEPT ![g] =
                  IF r.status = "panic" THEN PanickedIn(@)
                  ELSE Idle(@.calls + 1, "color", r.color)]
    /\ UNCHANGED <<src, rkind, pos, pc, striped, tiled, fallback, calls, img, ret>>
    /\ UNCHANGED <<cache, last, cursor, seen, history, loads>>

Call == \E g \in 1..NumCallers, x \in InBoundsX, y \in InBoundsY : AtCall(g, x, y)

Get == \E g \in 1..NumCallers : AtGet(g)

Load == \E g \in 1..NumCallers : AtLoad(g)

Add == \E g \in 1..NumCallers : AtAdd(g)

Return == \E g \in 1..NumCallers : AtReturn(g)

\* Well-formed tiled images of 3 x h pixels in tiles of 2 x 1.
ConcFiles ==
    { ImageFile(MagicII, "LE", 42,
                TiledFields(PhotometricBlackIsZero, comp, MaxW, h, <<2>>, 2, 1,
                            CeilDiv(MaxW, 2) * h)) :
        comp \in {CompressionNone, CompressionDeflate}, h \in 1..MaxH }

InitConc == \E b \in ConcFiles : Fresh(b, "ReaderAt")

NextConc ==
    \/ DecodeEnter
    \/ DecodeStriped
    \/ DecodeTiled
    \/ Call
    \/ Get
    \/ Load
    \/ Add
    \/ Return

SpecConc == InitConc /\ [][NextConc]_vars

----------------------------------------------------------------------------
(* Files for the parser: one entry of varying tag, count and values next   *)
(* to the usual ones, in both byte orders, whole or cut short.             *)

MaxVals == 3

\* The i-th value of the varying entry: its four bytes differ.
ArrVal(i) == 16909060 + i

ArrVals(n) == [i \in 1..n |-> ArrVal(i)]

LongArrayTags == {TagStripOffsets, TagStripByteCounts, TagTileOffsets, TagTileByteCounts}

\* Tags the parser has no case for.
OtherTags == {TagImageWidth - 1, TagTileByteCounts + 1}

\* The usual entries of a grayscale image, the k-th left out (k = 0: none).
UsualEntries(k) ==
    SelectSeq(<<[at |-> 1, e |-> Ent(TagImageWidth, TypeLong, <<ImageSide>>, FALSE)],
                [at |-> 2, e |-> Ent(TagImageLength, TypeLong, <<ImageSide>>, FALSE)],
                [at |-> 3, e |-> Ent(TagBitsPerSample, TypeShort, <<8>>, FALSE)],
                [at |-> 4, e |-> Ent(TagCompression, TypeShort, <<CompressionNone>>, FALSE)],
                [at |-> 5, e |-> Ent(TagPhotometricInterpretation, TypeShort,
                                     <<PhotometricBlackIsZero>>, FALSE)],
                [at |-> 6, e |-> Ent(TagPlanarConfiguration, TypeShort,
                                     <<PlanarConfigContig>>, FALSE)]>>,
              LAMBDA x : x.at # k)

EntriesOf(marked) == [i \in 1..Len(marked) |-> marked[i].e]

\* b with the bytes at off (0-based) replaced.
Patch(b, off, bytes) ==
    [i \in 1..Len(b) |-> IF i > off /\ i <= off + Len(bytes) THEN bytes[i - off] ELSE b[i]]

\* The file with the count of entry k (0-based) set to c.
WithCount(b, bo, k, c) == Patch(b, IfdOffset + 2 + 12 * k + 4, Bytes32(bo, c))

\* Counts written over the varying entry's own: none (-1), 0, and the two
\* smallest counts whose fourfold passes 2^32.  A count is written over
\* that of an out-of-line array, whose offset lies inside the file.
PatchedCounts == {-1, 0, TwoTo30, TwoTo30 + 1}

ParseFile(bo, k, tag, n, c, cut) ==
    Prefix(IF c < 0
           THEN EncodeFile(MagicOf(bo), bo, 42,
                           EntriesOf(UsualEntries(k)) \o <<Ent(tag, TypeLong, ArrVals(n), FALSE)>>,
                           <<>>)
           ELSE WithCount(EncodeFile(MagicOf(bo), bo, 42,
                                     EntriesOf(UsualEntries(k))
                                     \o <<Ent(tag, TypeLong, ArrVals(n), FALSE)>>,
                                     <<>>),
                          bo, Len(UsualEntries(k)), c),
           cut)

ParseFiles ==
    { ParseFile(bo, k, tag, v[1], v[2], 1000) :
        bo \in {"LE", "BE"}, k \in 0..6, tag \in LongArrayTags \cup OtherTags,
        v \in {v \in (1..MaxVals) \X PatchedCounts : v[2] < 0 \/ v[1] >= 2} }
    \cup
    { ParseFile(bo, 0, tag, n, -1, ArrayStart(EntriesOf(UsualEntries(0)) \o <<0>>) + 4 * n - 2) :
        bo \in {"LE", "BE"}, tag \in LongArrayTags \cup OtherTags, n \in 1..MaxVals }

InitParse == \E b \in ParseFiles, k \in {"ReaderAt", "ReadSeeker"} : Fresh(b, k)

NextParse ==
    \/ DecodeEnter
    \/ DecodeStriped
    \/ DecodeTiled
    \/ DecodeFallback

SpecParse == InitParse /\ [][NextParse]_vars

----------------------------------------------------------------------------
(* Properties of Decode and the constructors, checked under Spec.          *)

\* C1: on a random-access source Decode attempts striped construction first
\* and returns the striped decoder if it succeeds, tiled and fallback then
\* never being attempted; it attempts tiled construction only after striped
\* construction failed; it invokes the fallback decoder only after both
\* constructions failed, and then exactly once.
C1_DecoderOrder ==
    hasReaderAt =>
        /\ calls.striped <= 1 /\ calls.tiled <= 1 /\ calls.fallback <= 1
        /\ pc \in {"tiled", "fallback", "done", "panicked"} => calls.striped = 1
        /\ striped.status = "handle" =>
              /\ pc = "done" /\ img.kind = "striped" /\ ret.status = "image"
              /\ calls.tiled = 0 /\ calls.fallback = 0
        /\ (pc = "tiled" \/ calls.tiled > 0) => striped.status = "error"
        /\ tiled.status = "handle" =>
              /\ pc = "done" /\ img.kind = "tiled" /\ ret.status = "image"
              /\ calls.fallback = 0
        /\ (pc = "fallback" \/ calls.fallback > 0) =>
              /\ calls.tiled = 1
              /\ striped.status = "error" /\ tiled.status = "error"
        /\ (pc = "done" /\ striped.status = "error" /\ tiled.status = "error") =>
              calls.fallback = 1

C1_Witness ==
    /\ hasReaderAt /\ pc = "done"
    /\ calls = [striped |-> 1, tiled |-> 1, fallback |-> 1, parse |-> 2]
    /\ fallback = "image"

\* The header of the source is bad: the first two bytes are neither "II" nor
\* "MM", or bytes [2:4] read in the selected order are not 42.
MagicIn(b) == IF Len(b) >= 2 THEN <<b[1], b[2]>> ELSE <<>>

BadMagic(b) == Len(b) >= 2 /\ MagicIn(b) \notin {MagicII, MagicMM}

BadVersion(b) ==
    /\ Len(b) >= 4
    /\ MagicIn(b) \in {MagicII, MagicMM}
    /\ Uint16(IF MagicIn(b) = MagicII THEN "LE" ELSE "BE", b, 2) # 42

\* A constructor error that is none of the construction-time rejections.
ParseError(r) == r.status = "error" /\ r.err \in {"ErrInvalidTiffHeader", "EOF"}

\* C2 as stated: an invalid header or a read failure during fast-path
\* construction is returned to the caller of Decode as that error; neither
\* the next decoder nor the fallback is tried.
C2_ParseErrorsReturned ==
    (hasReaderAt /\ ParseError(striped)) =>
        /\ pc = "done"
        /\ calls.tiled = 0 /\ calls.fallback = 0
        /\ ret = [status |-> "error", err |-> striped.err]

\* C2, amended: every error of a fast-path constructor, the invalid header
\* and the read failure like the construction-time rejections, makes Decode
\* try the next decoder and finally the fallback; an error Decode returns is
\* the fallback decoder's, never a constructor's.
C2_EveryErrorFallsThrough ==
    hasReaderAt =>
        /\ striped.status = "error" => pc \in {"tiled", "fallback", "done", "panicked"}
        /\ (striped.status = "error" /\ pc # "tiled") => calls.tiled = 1
        /\ (striped.status = "error" /\ tiled.status = "error") => pc \in {"fallback", "done"}
        /\ (striped.status = "error" /\ tiled.status = "error" /\ pc = "done") =>
              /\ calls.fallback = 1
              /\ ret.status = "error" => fallback = "error"
        /\ ret.status = "error" => /\ ret.err = "stdtiff error"
                                   /\ ret.err \notin {striped.err, tiled.err}

C2_Witness ==
    /\ hasReaderAt /\ pc = "done"
    /\ striped.err = "ErrInvalidTiffHeader" /\ tiled.err = "ErrInvalidTiffHeader"
    /\ calls.fallback = 1
    /\ ret = [status |-> "error", err |-> "stdtiff error"]

\* What parseTiffHeader does on a bad header, by C3.
InvalidHeaderOnly(h) ==
    /\ h.status = "error"
    /\ h.err = "ErrInvalidTiffHeader"
    /\ h.hdr = ZeroHeader
    /\ h.reads = <<Rd(0, 8)>>

FormatOK(h) ==
    /\ \/ h.Photometric = PhotometricBlackIsZero /\ h.SamplesPerPixel = 1
       \/ h.Photometric = PhotometricRGB /\ h.SamplesPerPixel = 3
    /\ Len(h.BitsPerSample) >= 1
    /\ h.BitsPerSample[1] = 8

LayoutOK(offsets, counts) == Len(offsets) >= 1 /\ Len(offsets) = Len(counts)

StripedOK(h) ==
    /\ h.Compression = CompressionNone
    /\ FormatOK(h)
    /\ LayoutOK(h.StripOffsets, h.StripByteCounts)

\* C4: every handle LoadStripedTiff returns wraps a record with
\* Compression = None, Photometric BlackIsZero or RGB with 1 and 3 samples
\* per pixel, BitsPerSample[0] = 8 and non-empty StripOffsets as long as
\* StripByteCounts; a record violating any of these makes LoadStripedTiff
\* return an error and no handle.
C4_StripedHandle ==
    striped.parsed.status = "ok" =>
        IF StripedOK(striped.parsed.hdr)
        THEN striped.status = "handle" /\ striped.header = striped.parsed.hdr
        ELSE striped.status = "error" /\ striped.header = ZeroHeader

SampleFormatErrors == {"unsupported grayscale format", "unsupported RGB format"}

\* r is the outcome C6 requires of a constructor given a record with an
\* accepted compression and photometric and a wrong sample format.
SampleFormatRejected(r, accepted) ==
    (/\ r.parsed.status = "ok"
     /\ r.parsed.hdr.Compression \in accepted
     /\ r.parsed.hdr.Photometric \in {PhotometricBlackIsZero, PhotometricRGB}
     /\ ~FormatOK(r.parsed.hdr)) =>
        r.status = "error" /\ r.err \in SampleFormatErrors

\* C6: for every parsed record with an accepted compression and Photometric
\* BlackIsZero or RGB whose sample format is wrong, striped and tiled
\* construction fail with the unsupported-sample-format error; the records
\* with an empty BitsPerSample and a matching SamplesPerPixel are among them.
C6_SampleFormatError ==
    /\ SampleFormatRejected(striped, {CompressionNone})
    /\ SampleFormatRejected(tiled, {CompressionNone, CompressionDeflate})

----------------------------------------------------------------------------
(* Properties of the pixel queries, checked under SpecAt and SpecScan.     *)

\* The n bytes a read at off leaves in its buffer: those of the source, and
\* zeros past its end.
SourceBytes(off, n) == [j \in 1..n |-> IF off + j <= Len(src) THEN src[off + j] ELSE 0]

ColorOfBytes(h, b) ==
    IF h.Photometric = PhotometricRGB THEN <<b[1], b[2], b[3], 255>>
    ELSE <<b[1], b[1], b[1], 255>>

\* The read and the color C7 states for the last query of a striped image.
StripedAsStated(h, x, y) ==
    /\ last.reads =
          <<Rd(h.StripOffsets[(y \div h.RowsPerStrip) + 1]
               + ((y % h.RowsPerStrip) * h.Width + x) * h.SamplesPerPixel,
               h.SamplesPerPixel)>>
    /\ last.color = ColorOfBytes(h, SourceBytes(last.reads[1].off, h.SamplesPerPixel))

\* C7: for a striped decoder and every in-bounds (x, y), At(x, y) issues a
\* single read of SamplesPerPixel bytes at
\* StripOffsets[y div RowsPerStrip] + ((y mod RowsPerStrip) * Width + x) * SamplesPerPixel
\* and returns (b0, b1, b2, 255) for RGB and (b0, b0, b0, 255) for
\* BlackIsZero, b0.. being the bytes read.  (Queries whose read the source
\* fails are left aside.)
C7_StripedPixel ==
    (img.kind = "striped" /\ last.status # "none"
     /\ last.err # "could not read pixel") =>
        /\ last.status = "color"
        /\ StripedAsStated(img.header, last.x, last.y)

\* Whenever a striped query does return a color, it is the one C7 states.
StripedColorAsStated ==
    (img.kind = "striped" /\ last.status = "color") =>
        StripedAsStated(img.header, last.x, last.y)

\* The decompressed bytes of tile i, taken from the file.
StoredTile(h, i) == SourceBytes(h.TileOffsets[i + 1], h.TileByteCounts[i + 1])

TileData(h, i) ==
    IF h.Compression = CompressionDeflate
    THEN SubSeq(StoredTile(h, i), 3, Len(StoredTile(h, i)) - 1)
    ELSE StoredTile(h, i)

\* The tile and the color C8 states for the last query of a tiled image.
TiledAsStated(h, x, y) ==
    /\ last.tile = (y \div h.TileHeight) * CeilDiv(h.Width, h.TileWidth)
                   + (x \div h.TileWidth)
    /\ last.color =
          ColorOfBytes(h, SubSeq(TileData(h, last.tile),
                                 (y % h.TileHeight) * h.TileWidth * h.SamplesPerPixel
                                 + (x % h.TileWidth) * h.SamplesPerPixel + 1,
                                 Len(TileData(h, last.tile))))

\* C8: for a tiled decoder and every in-bounds (x, y), At(x, y) resolves
\* tile (y div TileHeight) * ceil(Width / TileWidth) + (x div TileWidth) and
\* returns the samples at offset (y mod TileHeight) * TileWidth *
\* SamplesPerPixel + (x mod TileWidth) * SamplesPerPixel of the tile's
\* decompressed buffer, also when Width is not a multiple of TileWidth.
\* (Queries whose tile the source fails to deliver or zlib fails to
\* decompress are left aside.)
C8_TiledPixel ==
    (img.kind = "tiled" /\ last.status # "none"
     /\ last.err \notin {"failed to read tile", "zlib decompression error",
                         "zlib read error"}) =>
        /\ last.status = "color"
        /\ TiledAsStated(img.header, last.x, last.y)

\* Whenever a tiled query does return a color, it is the one C8 states.
TiledColorAsStated ==
    (img.kind = "tiled" /\ last.status = "color") =>
        TiledAsStated(img.header, last.x, last.y)

C10_SameColorEveryTime ==
    last.status # "none" =>
        Outcome(last) = seen[last.y * img.header.Width + last.x + 1]

C10_Witness ==
    /\ img.kind = "tiled"
    /\ cursor = 2 * Pixels
    /\ last.tile = 0 /\ last.wasLoaded /\ ~last.hit /\ last.inflated
    /\ last.status = "color"
    /\ Outcome(last) = seen[1]

----------------------------------------------------------------------------
(* Properties of the parser, checked under SpecParse.  The IFD is decoded  *)
(* from the bytes of the source a second time, entry by entry.             *)

SrcOrder == IF MagicIn(src) = MagicII THEN "LE" ELSE "BE"

SrcUint16(off) == Uint16(SrcOrder, SourceBytes(off, 2), 0)

SrcUint32(off) == Uint32(SrcOrder, SourceBytes(off, 4), 0)

SrcEntries == SrcUint16(SrcUint32(4))

\* Offset of entry i (0-based) and its tag, count and value slot.
SrcEntry(i) == SrcUint32(4) + 2 + 12 * i

SrcTag(i) == SrcUint16(SrcEntry(i))

SrcCount(i) == SrcUint32(SrcEntry(i) + 4)

SrcSlot(i) == SrcUint32(SrcEntry(i) + 8)

HasEntry(tag) == \E i \in 0..(SrcEntries - 1) : SrcTag(i) = tag

\* The last entry carrying the tag.
EntryOf(tag) ==
    CHOOSE i \in 0..(SrcEntries - 1) :
        /\ SrcTag(i) = tag
        /\ \A j \in (i + 1)..(SrcEntries - 1) : SrcTag(j) # tag

\* The values C15 states for entry i.
LongsOf(i) ==
    IF SrcCount(i) = 1 THEN <<SrcSlot(i)>>
    ELSE [k \in 1..SrcCount(i) |-> SrcUint32(SrcSlot(i) + 4 * (k - 1))]

FieldOf(tag) ==
    CASE tag = TagStripOffsets -> "StripOffsets"
      [] tag = TagStripByteCounts -> "StripByteCounts"
      [] tag = TagTileOffsets -> "TileOffsets"
      [] tag = TagTileByteCounts -> "TileByteCounts"

\* The reads of the array entries up to entry i, in entry order.
RECURSIVE ArrayReads(_)
ArrayReads(i) ==
    IF i < 0 THEN <<>>
    ELSE ArrayReads(i - 1)
         \o (IF SrcTag(i) \in LongArrayTags /\ SrcCount(i) # 1
             THEN <<Rd(SrcSlot(i), 4 * SrcCount(i))>>
             ELSE IF SrcTag(i) = TagBitsPerSample /\ SrcCount(i) # 1
             THEN <<Rd(SrcSlot(i), 2 * SrcCount(i))>>
             ELSE <<>>)

\* The reads of a parse that succeeds: header, entry count, entry table,
\* and one per array that does not fit its value slot.
ReadsOfParse ==
    <<Rd(0, 8), Rd(SrcUint32(4), 2), Rd(SrcUint32(4) + 2, 12 * SrcEntries)>>
    \o ArrayReads(SrcEntries - 1)

\* h is the outcome C15 states for a parse that no read error ended.
LongArraysStored(h) ==
    h.status \notin {"none", "error"} =>
        /\ h.status = "ok"
        /\ \A tag \in LongArrayTags :
              HasEntry(tag) =>
                 /\ Len(h.hdr[FieldOf(tag)]) = SrcCount(EntryOf(tag))
                 /\ h.hdr[FieldOf(tag)] = LongsOf(EntryOf(tag))
        /\ h.reads = ReadsOfParse

\* C15: for each entry tagged StripOffsets, StripByteCounts, TileOffsets or
\* TileByteCounts with count c, in either byte order, the parser stores
\* exactly c values: for c = 1 the value slot, without a read of the
\* source; for c > 1 the c consecutive 32-bit values at the offset the slot
\* holds, element i from bytes [offset + 4i, offset + 4i + 4).
C15_LongArrays ==
    /\ LongArraysStored(striped.parsed)
    /\ LongArraysStored(tiled.parsed)

\* The same for the counts whose fourfold stays below 2^32.
LongArraysBelowWrap ==
    (\A i \in 0..(SrcEntries - 1) : SrcCount(i) < TwoTo30) =>
        /\ LongArraysStored(striped.parsed)
        /\ LongArraysStored(tiled.parsed)

\* h is the record of a parse in which every field without an entry kept
\* its initial value and no entry caused a read but the arrays'.
OnlyOwnTagWrites(h) ==
    h.status = "ok" =>
        /\ ~HasEntry(TagImageWidth) => h.hdr.Width = 0
        /\ ~HasEntry(TagImageLength) => h.hdr.Height = 0
        /\ ~HasEntry(TagCompression) => h.hdr.Compression = CompressionUnknown
        /\ ~HasEntry(TagPhotometricInterpretation) => h.hdr.Photometric = PhotometricUnknown
        /\ ~HasEntry(TagPlanarConfiguration) => h.hdr.PlanarConfig = PlanarConfigUnknown
        /\ ~HasEntry(TagBitsPerSample) => h.hdr.BitsPerSample = <<>>
        /\ \A tag \in LongArrayTags : ~HasEntry(tag) => h.hdr[FieldOf(tag)] = <<>>
        /\ HasEntry(TagImageWidth) => h.hdr.Width = SrcSlot(EntryOf(TagImageWidth))
        /\ HasEntry(TagImageLength) => h.hdr.Height = SrcSlot(EntryOf(TagImageLength))
        /\ HasEntry(TagCompression) =>
              h.hdr.Compression = SrcUint16(SrcEntry(EntryOf(TagCompression)) + 8)
        /\ h.hdr.RowsPerStrip = 0 /\ h.hdr.TileWidth = 0 /\ h.hdr.TileHeight = 0
        /\ h.reads = ReadsOfParse

\* C16: each field is written only by an entry carrying its own tag: an
\* entry with an unrecognized tag leaves the record unchanged and causes no
\* read, and a field the IFD has no entry for holds its initial value after
\* the parse (Width and Height 0, Compression, Photometric and PlanarConfig
\* Unknown, the offset and count sequences empty).
C16_OnlyOwnTagWrites ==
    /\ OnlyOwnTagWrites(striped.parsed)
    /\ OnlyOwnTagWrites(tiled.parsed)

C16_Witness ==
    /\ tiled.parsed.status = "ok"
    /\ \E i \in 0..(SrcEntries - 1) : SrcTag(i) \in OtherTags /\ SrcCount(i) = TwoTo30 + 1
    /\ ~HasEntry(TagCompression)
    /\ tiled.parsed.hdr.Compression = CompressionUnknown
    /\ Len(tiled.parsed.reads) = 3

\* C19: parseTiffHeader ends by returning a record or an error for every
\* source and every entry count, never by an index out of range: the byte
\* length asked for an array is at least what the element loop indexes.
C19_ParserTotal ==
    /\ striped.parsed.status # "panic"
    /\ tiled.parsed.status # "panic"

----------------------------------------------------------------------------
(* Properties of Decode, continued (checked under Spec).                   *)

\* The record a returned fast-path decoder wraps is the one its own
\* constructor's parse returned.
WrappedRecordIsParsed ==
    /\ img.kind = "striped" => striped.status = "handle" /\ img.header = striped.parsed.hdr
    /\ img.kind = "tiled" => tiled.status = "handle" /\ img.header = tiled.parsed.hdr

\* C14: during one call of Decode on a random-access source parseTiffHeader
\* runs exactly once, whichever of the striped decoder, the tiled decoder or
\* the fallback is returned, and the returned decoder wraps its record.
C14_ParsedOnce ==
    (pc = "done" /\ hasReaderAt) => calls.parse = 1 /\ WrappedRecordIsParsed

\* C20: when Decode reaches the fallback with an input that is a ReadSeeker
\* but not a ReaderAt, the stream's read position is the one it had when
\* Decode was entered (0, the TIFF header).
C20_FallbackAtStart ==
    (rkind = "ReadSeeker" /\ pc = "fallback") => pos = 0

----------------------------------------------------------------------------
(* Properties of the byte source (checked under SpecAt).                   *)

\* A ReadAt call that asks for bytes past the end of the source.
PastEnd(rd) == rd.off + rd.size > Len(src)

\* Every read past the end in reads was reported as a failure: it is the
\* last read and the operation ended with the failure failed.
ShortReadsFail(reads, failed) ==
    \A i \in DOMAIN reads : PastEnd(reads[i]) => i = Len(reads) /\ failed

\* C17: behind a readerAtFromSeeker every ReadAt fills the whole buffer or
\* returns an error: a Read that delivers fewer bytes than requested is
\* never taken as a success by the parser or by a pixel query.
C17_SeekerReadsWhole ==
    rkind = "ReadSeeker" =>
        /\ ShortReadsFail(striped.reads, striped.err = "EOF")
        /\ ShortReadsFail(tiled.reads, tiled.err = "EOF")
        /\ ShortReadsFail(last.reads, last.status = "panic")

\* The same for an io.ReaderAt, which reports every short read.
ReaderAtReadsWhole ==
    rkind = "ReaderAt" =>
        /\ ShortReadsFail(striped.reads, striped.err = "EOF")
        /\ ShortReadsFail(tiled.reads, tiled.err = "EOF")
        /\ ShortReadsFail(last.reads, last.status = "panic")

----------------------------------------------------------------------------
(* Properties of pixel access, continued (checked under SpecAt).           *)

\* The run-time panics of At's own arithmetic and indexing.
IndexPanics == {"integer divide by zero", "index out of range"}

\* C18: for a handle that LoadStripedTiff or LoadTiledTiff accepted and
\* (x, y) inside Bounds(), At(x, y) never divides by a zero RowsPerStrip,
\* TileWidth or TileHeight, never indexes StripOffsets/TileOffsets at or
\* past their length, and never indexes past the loaded tile buffer.
C18_AtStaysInside ==
    (img.kind \in {"striped", "tiled"} /\ last.status # "none") =>
        last.err \notin IndexPanics

----------------------------------------------------------------------------
(* Properties of the tile cache (checked under SpecScan).                  *)

CacheKeys == [i \in 1..Len(cache) |-> cache[i].key]

\* The tiles that were loaded, most recently queried first.
RecentLoaded == SelectSeq(history.recent, LAMBDA t : t \in history.loaded)

\* The cache holds the CacheSize most recently queried tiles and no other:
\* an insert into a full cache has removed the tile queried longest ago.
CacheIsLRU ==
    /\ Len(cache) <= CacheSize
    /\ CacheKeys = Prefix(RecentLoaded, CacheSize)

\* The stored bytes of tile i lie inside the source.
StoredInSource(h, i) == h.TileOffsets[i + 1] + h.TileByteCounts[i + 1] <= Len(src)

\* Entry e is keyed by a tile index and holds that tile's bytes.
EntryOfTile(h, e) ==
    /\ e.key \in 0..(Len(h.TileOffsets) - 1)
    /\ e.val = TileData(h, e.key)

\* C12: the cache of a tiled decoder holds at most 200 entries, each keyed
\* by a tile index and holding exactly the decompressed (or raw) bytes of
\* that tile as stored in the source, and an insert into a full cache removes
\* the entry whose most recent query is oldest.
C12_CacheBoundedExactLRU ==
    img.kind = "tiled" =>
        /\ CacheIsLRU
        /\ \A i \in 1..Len(cache) :
              EntryOfTile(img.header, cache[i]) /\ StoredInSource(img.header, cache[i].key)

\* Leaving aside whether the source holds all of a tile's bytes (the bytes
\* it lacks read as zeros), the cache is bounded, keyed and ordered as C12
\* states.
CacheBoundedLRU ==
    img.kind = "tiled" =>
        /\ CacheIsLRU
        /\ \A i \in 1..Len(cache) : EntryOfTile(img.header, cache[i])

\* A miss has just been inserted into a full cache.
InsertedIntoFull ==
    /\ img.kind = "tiled"
    /\ Len(cache) = CacheSize /\ Len(RecentLoaded) > CacheSize
    /\ ~last.hit /\ last.status = "color" /\ cache[1].key = last.tile

\* The failures of loadTile: the source read and the two zlib steps.
LoadFailures == {"failed to read tile", "zlib decompression error", "zlib read error"}

\* A query that failed to load its tile: it panicked after one attempt to
\* read the tile, returned no color, and the cache holds no entry for the
\* tile, so that the next query into the tile is a miss again.
FailedLoadAborts ==
    (img.kind = "tiled" /\ last.err \in LoadFailures) =>
        /\ last.status = "panic" /\ last.color = <<>>
        /\ ~last.hit /\ Len(last.reads) = 1
        /\ CacheIndex(cache, last.tile) = 0

\* C13: when the source read or the zlib decompression fails during a cache
\* miss, the query aborts with a fatal error and returns no color, the cache
\* is exactly as it was before the query, and a later query into the same
\* tile attempts the load again.
C13_FailedLoadLeavesCache ==
    /\ []FailedLoadAborts
    /\ [][last'.err \in LoadFailures => cache' = cache]_vars

\* The reverse walk queries a tile that failed before: it is read again and
\* fails again, with other tiles in the cache.
C13_Witness ==
    /\ img.kind = "tiled"
    /\ cursor > Pixels
    /\ last.err \in LoadFailures /\ Len(last.reads) = 1
    /\ Len(cache) > 0

----------------------------------------------------------------------------
(* Properties of concurrent queries (checked under SpecConc).              *)

\* C11: when two or more callers concurrently query pixels of the same
\* not-yet-cached tile through one tiled handle, the tile is read from the
\* source and decompressed at most once: no interleaving of the lookup,
\* load and insert steps lets two callers both load the same tile.
C11_TileLoadedOnce ==
    \A t \in DOMAIN loads : loads[t] <= 1

====
